---- MODULE Spec2Model ----
(***************************************************************************)
(* Model of src/api/comments.go: the comment widget's HTTP handlers        *)
(* (getComments, postComment, renderCommentSection), the append-only log   *)
(* comments.jsonl (saveComment, loadComments, ensureDataFile), the         *)
(* process-wide sync.RWMutex mu and the identifier generator newUUID.      *)
(*                                                                         *)
(* Representation of data.                                                 *)
(*  - A Go string is a sequence of runs [ch, n]: n >= 1 copies of the      *)
(*    byte unit ch.  Units: "sp" (0x20), "nl" (0x0A), "a" (a printable     *)
(*    ASCII byte), "bad" (a byte that is not valid UTF-8, e.g. 0xFF) and   *)
(*    "rep" (the rune U+FFFD, three bytes).  Inside a JSON string literal  *)
(*    the units "esc_n" and "esc_ufffd" are the two-byte and six-byte      *)
(*    escape sequences for the line feed and for U+FFFD.                   *)
(*  - The log file is a sequence of tokens: "nl" is the byte 0x0A, "full"  *)
(*    is the complete output of json.Marshal for one comment, "part" is a  *)
(*    non-empty proper prefix of such an output (a short write).           *)
(*  - An identifier is the tuple of the five hexadecimal groups of the     *)
(*    8-4-4-4-12 text, each group as the number it spells; the empty       *)
(*    string is the empty tuple.  Clock values of the model stay below     *)
(*    2^31, so the truncation of the time stamp to 48 bits never cuts.     *)
(***************************************************************************)
EXTENDS Integers, Sequences, FiniteSets, TLC

\* ------------------------------------------------------------------ bounds

\* Number of HTTP requests served in one run.
NumReqs == 2
\* Number of I/O or entropy failures the environment injects in one run.
MaxFaults == 1
\* Number of times the wall clock advances in one run.
MaxTicks == 1

\* ------------------------------------------------------- program constants

MaxNameLen == 80
MaxBodyLen == 1000
\* time.Now().Format("2006-01-02 15:04") has minute granularity.
MsPerMinute == 60000
\* binary.BigEndian.PutUint64(b[0:8], ms<<16): b[4:6] holds the low 16 bits
\* of the millisecond count, b[0:4] the bits above them.
LowGroupSize == 65536
\* b[6] = (b[6] & 0x0f) | 0x70 : the high nibble of group 3 is 7.
VersionTag == 28672
\* b[8] = (b[8] & 0x3f) | 0x80 : the two high bits of group 4 are 10.
VariantTag == 32768
StatusOK == 200
StatusBadRequest == 400
StatusInternalServerError == 500

\* ------------------------------------------------------------------ strings

Str(c, n) == IF n = 0 THEN << >> ELSE << [ch |-> c, n |-> n] >>

\* Bytes one unit occupies in a Go string.
Width(c) == IF c = "rep" THEN 3 ELSE 1

RECURSIVE len(_)
\* len(s): the length in bytes.
len(s) == IF s = << >> THEN 0 ELSE Head(s).n * Width(Head(s).ch) + len(Tail(s))

\* unicode.IsSpace on the units of the model.
IsSpace(c) == c \in {"sp", "nl"}

RECURSIVE TrimLeft(_)
TrimLeft(s) ==
    IF s = << >> THEN << >>
    ELSE IF IsSpace(Head(s).ch) THEN TrimLeft(Tail(s)) ELSE s

RECURSIVE TrimRight(_)
TrimRight(s) ==
    IF s = << >> THEN << >>
    ELSE IF IsSpace(s[Len(s)].ch) THEN TrimRight(SubSeq(s, 1, Len(s) - 1)) ELSE s

\* strings.TrimSpace: leading and trailing white space removed, interior kept.
TrimSpace(s) == TrimRight(TrimLeft(s))

\* ------------------------------------------------------------ encoding/json

\* json.Marshal of one string unit: a line feed becomes its escape sequence,
\* a byte that is not valid UTF-8 becomes the escape sequence of U+FFFD.
EscapeUnit(c) ==
    CASE c = "nl" -> "esc_n"
      [] c = "bad" -> "esc_ufffd"
      [] OTHER -> c

\* json.Unmarshal of one unit of a string literal.
UnescapeUnit(c) ==
    CASE c = "esc_n" -> "nl"
      [] c = "esc_ufffd" -> "rep"
      [] OTHER -> c

EncodeString(s) == [i \in 1..Len(s) |-> [ch |-> EscapeUnit(s[i].ch), n |-> s[i].n]]
DecodeString(s) == [i \in 1..Len(s) |-> [ch |-> UnescapeUnit(s[i].ch), n |-> s[i].n]]

\* json.Marshal(comment): the four fields in declaration order.
jsonMarshal(c) == << c.ID, EncodeString(c.Name), EncodeString(c.Body), c.Created >>

\* The Comment a complete JSON object decodes to.
DecodeObject(d) ==
    [ID |-> d[1], Name |-> DecodeString(d[2]), Body |-> DecodeString(d[3]), Created |-> d[4]]

\* --------------------------------------------------------------- the log file

NL == [t |-> "nl", data |-> << >>]
Full(d) == [t |-> "full", data |-> d]
Part(d) == [t |-> "part", data |-> d]

\* A write that is issued a second time.
AppendBytes_Twice(f, bytes) == f \o bytes \o bytes

\* A write on a descriptor opened with O_APPEND lands at the end of the file.
AppendBytes(f, bytes) == f \o bytes

RECURSIVE ScanFrom(_, _, _)
ScanFrom(f, i, cur) ==
    IF i > Len(f)
    THEN IF cur = << >> THEN << >> ELSE << cur >>
    ELSE IF f[i].t = "nl"
         THEN << cur >> \o ScanFrom(f, i + 1, << >>)
         ELSE ScanFrom(f, i + 1, Append(cur, f[i]))

\* A scanner loop that stops one line early.
ScanLines_DropLast(f) ==
    LET all == ScanFrom(f, 1, << >>)
    IN  IF all = << >> THEN all ELSE SubSeq(all, 1, Len(all) - 1)
\* bufio.Scanner with the default split function ScanLines: the lines of the
\* file without their terminators; a last line without terminator counts when
\* it is not empty.
ScanLines(f) == ScanFrom(f, 1, << >>)

\* json.Unmarshal(line, &comment) succeeds exactly on one complete object: an
\* empty line, a truncated object and two objects on one line are errors.
UnmarshalOK(line) == Len(line) = 1 /\ line[1].t = "full"
jsonUnmarshal(line) == DecodeObject(line[1].data)

RECURSIVE DecodeFrom_Skip(_, _, _)
\* A loop that skips a line it cannot decode (continue instead of return).
DecodeFrom_Skip(lines, i, acc) ==
    IF i > Len(lines) THEN [comments |-> acc, err |-> "nil"]
    ELSE IF ~UnmarshalOK(lines[i]) THEN DecodeFrom_Skip(lines, i + 1, acc)
    ELSE DecodeFrom_Skip(lines, i + 1, Append(acc, jsonUnmarshal(lines[i])))

RECURSIVE DecodeFrom_Prepend(_, _, _)
\* A loop that puts each decoded comment in front of the earlier ones.
DecodeFrom_Prepend(lines, i, acc) ==
    IF i > Len(lines) THEN [comments |-> acc, err |-> "nil"]
    ELSE IF ~UnmarshalOK(lines[i]) THEN [comments |-> << >>, err |-> "decode"]
    ELSE DecodeFrom_Prepend(lines, i + 1, << jsonUnmarshal(lines[i]) >> \o acc)

RECURSIVE DecodeFrom(_, _, _)
\* The loop of loadComments: the first line that fails to decode ends the
\* read with (nil, err).
DecodeFrom(lines, i, acc) ==
    IF i > Len(lines) THEN [comments |-> acc, err |-> "nil"]
    ELSE IF ~UnmarshalOK(lines[i]) THEN [comments |-> << >>, err |-> "decode"]
    ELSE DecodeFrom(lines, i + 1, Append(acc, jsonUnmarshal(lines[i])))

\* loadComments on an opened file whose content is f; readOK is FALSE when
\* the read that should report the end of the file fails (scanner.Err() # nil
\* after the loop).
loadComments(f, readOK) ==
    LET r == DecodeFrom(ScanLines(f), 1, << >>)
    IN  IF r.err # "nil" THEN r
        ELSE IF ~readOK THEN [comments |-> << >>, err |-> "read"]
        ELSE r

\* --------------------------------------------------------------- identifiers

\* A newUUID that writes the timestamp low group first.
newUUID_LowFirst(ms, randOK, rnd) ==
    IF ~randOK THEN << >>
    ELSE << ms % LowGroupSize, ms \div LowGroupSize,
            VersionTag + (rnd % 4096), VariantTag + (rnd % 16384), rnd >>

\* newUUID at clock value ms; randOK is FALSE when rand.Read fails, and rnd
\* stands for the random bytes b[6:16].
newUUID(ms, randOK, rnd) ==
    IF ~randOK THEN << >>
    ELSE << ms \div LowGroupSize, ms % LowGroupSize,
            VersionTag + (rnd % 4096), VariantTag + (rnd % 16384), rnd >>

\* time.Now().Format("2006-01-02 15:04")
FormatCreated(ms) == << ms \div MsPerMinute >>

\* ---------------------------------------------------------------- validation

\* The length checks off by one (>= for >).
Rejected_OffByOne(name_, body_, honeypot) ==
    \/ honeypot # << >>
    \/ name_ = << >>
    \/ body_ = << >>
    \/ len(name_) >= MaxNameLen
    \/ len(body_) >= MaxBodyLen

\* The condition of the early return of postComment (line 55).
Rejected(name_, body_, honeypot) ==
    \/ honeypot # << >>
    \/ name_ = << >>
    \/ body_ = << >>
    \/ len(name_) > MaxNameLen
    \/ len(body_) > MaxBodyLen

\* ----------------------------------------------------------------- responses

TextPart(msg) == [kind |-> "text", text |-> msg, list |-> << >>]
\* tmpl.Execute(w, comments): name, time stamp and body of each comment, in
\* order; the identifier is not rendered.
FragmentPart(comments) ==
    [kind |-> "fragment", text |-> "",
     list |-> [i \in 1..Len(comments) |->
                 << comments[i].Name, comments[i].Created, comments[i].Body >>]]

NoResponse == [status |-> 0, ctype |-> "", body |-> << >>]
\* http.Error(w, msg, code)
httpError(resp, msg, code) ==
    IF resp.status = 0
    THEN [status |-> code, ctype |-> "text/plain", body |-> Append(resp.body, TextPart(msg))]
    ELSE [resp EXCEPT !.body = Append(resp.body, TextPart(msg))]
\* w.Header().Set("Content-Type", ...) followed by writes to w: the header is
\* taken only when no status line has been written yet.
WriteFragment(resp, comments) ==
    IF resp.status = 0
    THEN [status |-> StatusOK, ctype |-> "text/html", body |-> << FragmentPart(comments) >>]
    ELSE [resp EXCEPT !.body = Append(resp.body, FragmentPart(comments))]
\* A handler that returns without writing: net/http answers 200, empty body.
Finish(resp) == IF resp.status = 0 THEN [resp EXCEPT !.status = StatusOK] ELSE resp

\* -------------------------------------------------------------------- state

Reqs == 1..NumReqs

\* The form fields the requests of the model submit: name, body and the
\* honeypot field website; ok is FALSE when r.ParseForm() fails.
Form(ok, n, b, w) == [ok |-> ok, name |-> n, body |-> b, website |-> w]
Forms ==
    { Form(TRUE, Str("sp", 1) \o Str("a", 3) \o Str("sp", 2),
                 Str("a", 5) \o Str("nl", 1) \o Str("a", 5), << >>),
      Form(TRUE, Str("sp", 1) \o Str("a", MaxNameLen),
                 Str("a", MaxBodyLen) \o Str("nl", 1), << >>),
      Form(TRUE, Str("a", MaxNameLen + 1), Str("a", 1), << >>),
      Form(TRUE, Str("a", 1), Str("a", MaxBodyLen + 1), << >>),
      Form(TRUE, Str("a", 3), Str("a", 5), Str("a", 4)),
      Form(TRUE, Str("sp", 2), Str("a", 5), << >>),
      Form(TRUE, Str("a", 3), Str("nl", 1) \o Str("sp", 1), << >>),
      Form(TRUE, Str("bad", MaxNameLen), Str("a", 5), << >>),
      Form(FALSE, Str("a", 3), Str("a", 5), << >>) }
NoForm == Form(TRUE, << >>, << >>, << >>)

NoComment == [ID |-> << >>, Name |-> << >>, Body |-> << >>, Created |-> << >>]

VARIABLES
    started,     \* main has called ensureDataFile and is listening
    exists,      \* comments.jsonl exists
    file,        \* its content
    mu,          \* the RWMutex mu: w is the request that holds rw.w (0: none),
                 \* held whether it has the write lock, readers the read holders
    now,         \* the wall clock, in milliseconds
    faults,      \* failures injected so far
    pc,          \* where each request is
    kind,        \* "GET" or "POST"
    form,        \* the form of a POST request
    newComment,  \* postComment's newComment
    nData,       \* what f.Write(data) wrote: "none", "part" or "full"
    nNL,         \* whether f.Write([]byte{'\n'}) wrote the byte
    saveErr,     \* the value saveComment returned ("pending" before it returns)
    comments,    \* renderCommentSection's comments
    err,         \* renderCommentSection's err
    resp,        \* what has been written to the ResponseWriter
    overlap,     \* history: some submission began while another was in flight
    doneAtOpen   \* history: the requests whose saveComment had returned when
                 \* the request opened the file for reading

vars == << started, exists, file, mu, now, faults, pc, kind, form,
           newComment, nData, nNL, saveErr, comments, err, resp, overlap,
           doneAtOpen >>

disk == << exists, file >>
post == << newComment, nData, nNL, saveErr >>
load == << comments, err >>
hist == << overlap, doneAtOpen >>

\* The first clock value of a run.
StartMs == 65535

\* What the process starts with, whatever is on the disk.
Fresh ==
    /\ started = FALSE
    /\ mu = [w |-> 0, held |-> FALSE, readers |-> {}]
    /\ now = StartMs
    /\ faults = 0
    /\ pc = [r \in Reqs |-> "idle"]
    /\ kind = [r \in Reqs |-> "GET"]
    /\ form = [r \in Reqs |-> NoForm]
    /\ newComment = [r \in Reqs |-> NoComment]
    /\ nData = [r \in Reqs |-> "none"]
    /\ nNL = [r \in Reqs |-> FALSE]
    /\ saveErr = [r \in Reqs |-> "pending"]
    /\ comments = [r \in Reqs |-> << >>]
    /\ err = [r \in Reqs |-> "nil"]
    /\ resp = [r \in Reqs |-> NoResponse]
    /\ overlap = FALSE
    /\ doneAtOpen = [r \in Reqs |-> {}]

\* The first start: there is no log, or an empty one.
Init ==
    /\ exists \in BOOLEAN
    /\ file = << >>
    /\ Fresh

\* The log an earlier run of the process has left: one comment, written a
\* millisecond before this run starts.
OldComment ==
    [ID |-> newUUID(StartMs - 1, TRUE, 0), Name |-> Str("a", 3), Body |-> Str("a", 5),
     Created |-> FormatCreated(StartMs - 1)]
OldLog == << Full(jsonMarshal(OldComment)), NL >>

\* A start or a restart: no log, an empty log or the log of an earlier run.
InitRestart ==
    /\ exists \in BOOLEAN
    /\ file \in (IF exists THEN {<< >>, OldLog} ELSE {<< >>})
    /\ Fresh

\* The environment may still inject a failure.
MayFail == faults < MaxFaults

\* ------------------------------------------------------- clock and start-up

\* The wall clock advances.  Only newUUID and the time stamp of postComment
\* read it, so it is enough to let it advance when a request is about to.
Tick ==
    /\ now < StartMs + MaxTicks
    /\ \E r \in DOMAIN pc : pc[r] = "p_new"
    /\ now' = now + 1
    /\ UNCHANGED << started, disk, mu, faults, pc, kind, form, post, load, resp, hist >>

\* An ensureDataFile that writes the empty file without asking os.Stat.
Main_AlwaysWrite ==
    /\ ~started
    /\ started' = TRUE
    /\ exists' = TRUE
    /\ file' = << >>
    /\ UNCHANGED << mu, now, faults, pc, kind, form, post, load, resp, hist >>

\* main: ensureDataFile creates the file when os.Stat reports that it does
\* not exist, then the server listens.
Main ==
    /\ ~started
    /\ started' = TRUE
    /\ exists' = TRUE
    /\ UNCHANGED << file, mu, now, faults, pc, kind, form, post, load, resp, hist >>

\* ensureDataFile drops the error of os.WriteFile: the server listens
\* although the file could not be created.
MainCreateFails ==
    /\ ~started
    /\ ~exists
    /\ MayFail
    /\ faults' = faults + 1
    /\ started' = TRUE
    /\ UNCHANGED << disk, mu, now, pc, kind, form, post, load, resp, hist >>

\* ----------------------------------------------------------- the lock mu

\* rw.w.Lock(): one writer at a time gets past the inner mutex.
\* A writer that does not wait for another writer.
CanLock_NoWait == TRUE
\* Lock takes rw.w, which one writer holds at a time.
CanLock == mu.w = 0
\* A writer that does not wait for the readers.
ReadersGone_NoWait == TRUE
\* The writer that holds rw.w waits until the active readers have left.
ReadersGone == mu.readers = {}
\* A reader that does not wait for the writer.
CanRLock_NoWait == TRUE
\* RLock blocks while a writer holds rw.w, waiting or writing.
CanRLock == mu.w = 0

\* ------------------------------------------------------------ the handlers

InFlight(r) == pc[r] \notin {"idle", "done"}
\* Requests are numbered in the order in which they arrive.
MayStart(r) == started /\ pc[r] = "idle" /\ \A q \in Reqs : q < r => pc[q] # "idle"
Submitting(r) == kind[r] = "POST" /\ InFlight(r)

\* getComments
GetStart(r) ==
    /\ MayStart(r)
    /\ kind' = [kind EXCEPT ![r] = "GET"]
    /\ pc' = [pc EXCEPT ![r] = "r_rlock"]
    /\ UNCHANGED << started, disk, mu, now, faults, form, post, load, resp, hist >>

Arrive(r, f) ==
    /\ MayStart(r)
    /\ kind' = [kind EXCEPT ![r] = "POST"]
    /\ form' = [form EXCEPT ![r] = f]
    /\ overlap' = (overlap \/ \E q \in Reqs \ {r} : Submitting(q))
    /\ UNCHANGED << started, disk, mu, now, faults, post, load, doneAtOpen >>

\* postComment, lines 51-52
name(r) == TrimSpace(form[r].name)
body(r) == TrimSpace(form[r].body)

\* postComment, lines 46-49: the form does not parse.
PostBadForm(r) ==
    \E f \in Forms :
        /\ ~f.ok
        /\ Arrive(r, f)
        /\ resp' = [resp EXCEPT ![r] = httpError(resp[r], "invalid form", StatusBadRequest)]
        /\ pc' = [pc EXCEPT ![r] = "done"]

\* postComment, lines 55-57: the early return writes nothing.
PostRejected(r) ==
    \E f \in Forms :
        /\ f.ok
        /\ Rejected(TrimSpace(f.name), TrimSpace(f.body), f.website)
        /\ Arrive(r, f)
        /\ resp' = [resp EXCEPT ![r] = Finish(resp[r])]
        /\ pc' = [pc EXCEPT ![r] = "done"]

PostAccepted(r) ==
    \E f \in Forms :
        /\ f.ok
        /\ ~Rejected(TrimSpace(f.name), TrimSpace(f.body), f.website)
        /\ Arrive(r, f)
        /\ pc' = [pc EXCEPT ![r] = "p_lock"]
        /\ resp' = resp

\* mu.Lock(), first half
Lock(r) ==
    /\ pc[r] = "p_lock"
    /\ CanLock
    /\ mu' = [mu EXCEPT !.w = r]
    /\ pc' = [pc EXCEPT ![r] = "p_wait"]
    /\ UNCHANGED << started, disk, now, faults, kind, form, post, load, resp, hist >>

\* mu.Lock(), second half
LockAcquired(r) ==
    /\ pc[r] = "p_wait"
    /\ ReadersGone
    /\ mu' = [mu EXCEPT !.held = TRUE]
    /\ pc' = [pc EXCEPT ![r] = "p_new"]
    /\ UNCHANGED << started, disk, now, faults, kind, form, post, load, resp, hist >>

\* The comment of lines 60-65 when the entropy source answers (randOK) or not.
\* The two readings of the clock (newUUID, line 146, and line 64) fall into
\* one step; the request's number stands for the random bytes.
BuildComment(r, randOK) ==
    [ID |-> newUUID(now, randOK, r), Name |-> name(r), Body |-> body(r),
     Created |-> FormatCreated(now)]

NewComment(r) ==
    /\ pc[r] = "p_new"
    /\ newComment' = [newComment EXCEPT ![r] = BuildComment(r, TRUE)]
    /\ pc' = [pc EXCEPT ![r] = "s_open"]
    /\ UNCHANGED << started, disk, mu, now, faults, kind, form, nData, nNL, saveErr,
                    load, resp, hist >>

\* rand.Read fails: newUUID returns "" and postComment goes on.
NewCommentNoEntropy(r) ==
    /\ pc[r] = "p_new"
    /\ MayFail
    /\ faults' = faults + 1
    /\ newComment' = [newComment EXCEPT ![r] = BuildComment(r, FALSE)]
    /\ pc' = [pc EXCEPT ![r] = "s_open"]
    /\ UNCHANGED << started, disk, mu, now, kind, form, nData, nNL, saveErr,
                    load, resp, hist >>

\* saveComment, line 120
data(r) == jsonMarshal(newComment[r])

\* saveComment, line 126: O_APPEND|O_CREATE|O_WRONLY
SaveOpen(r) ==
    /\ pc[r] = "s_open"
    /\ exists' = TRUE
    /\ pc' = [pc EXCEPT ![r] = "s_write"]
    /\ UNCHANGED << started, file, mu, now, faults, kind, form, post, load, resp, hist >>

\* saveComment, lines 128-130
SaveOpenFails(r) ==
    /\ pc[r] = "s_open"
    /\ MayFail
    /\ faults' = faults + 1
    /\ saveErr' = [saveErr EXCEPT ![r] = "open"]
    /\ pc' = [pc EXCEPT ![r] = "p_unlock"]
    /\ UNCHANGED << started, disk, mu, now, kind, form, newComment, nData, nNL,
                    load, resp, hist >>

\* saveComment, line 132
SaveWrite(r) ==
    /\ pc[r] = "s_write"
    /\ file' = AppendBytes(file, << Full(data(r)) >>)
    /\ nData' = [nData EXCEPT ![r] = "full"]
    /\ pc' = [pc EXCEPT ![r] = "s_nl"]
    /\ UNCHANGED << started, exists, mu, now, faults, kind, form, newComment, nNL,
                    saveErr, load, resp, hist >>

\* line 132, the write fails after some bytes or none; the error is dropped.
SaveWriteShort(r) ==
    /\ pc[r] = "s_write"
    /\ MayFail
    /\ faults' = faults + 1
    /\ \/ /\ file' = AppendBytes(file, << Part(data(r)) >>)
          /\ nData' = [nData EXCEPT ![r] = "part"]
       \/ /\ file' = file
          /\ nData' = [nData EXCEPT ![r] = "none"]
    /\ pc' = [pc EXCEPT ![r] = "s_nl"]
    /\ UNCHANGED << started, exists, mu, now, kind, form, newComment, nNL,
                    saveErr, load, resp, hist >>

\* saveComment, line 133
SaveNewline(r) ==
    /\ pc[r] = "s_nl"
    /\ file' = AppendBytes(file, << NL >>)
    /\ nNL' = [nNL EXCEPT ![r] = TRUE]
    /\ pc' = [pc EXCEPT ![r] = "s_close"]
    /\ UNCHANGED << started, exists, mu, now, faults, kind, form, newComment, nData,
                    saveErr, load, resp, hist >>

\* line 133, the write fails; the error is dropped.
SaveNewlineFails(r) ==
    /\ pc[r] = "s_nl"
    /\ MayFail
    /\ faults' = faults + 1
    /\ pc' = [pc EXCEPT ![r] = "s_close"]
    /\ UNCHANGED << started, disk, mu, now, kind, form, post, load, resp, hist >>

\* saveComment, lines 135-139
SaveClose(r) ==
    /\ pc[r] = "s_close"
    /\ saveErr' = [saveErr EXCEPT ![r] = "nil"]
    /\ pc' = [pc EXCEPT ![r] = "p_unlock"]
    /\ UNCHANGED << started, disk, mu, now, faults, kind, form, newComment, nData, nNL,
                    load, resp, hist >>

SaveCloseFails(r) ==
    /\ pc[r] = "s_close"
    /\ MayFail
    /\ faults' = faults + 1
    /\ saveErr' = [saveErr EXCEPT ![r] = "close"]
    /\ pc' = [pc EXCEPT ![r] = "p_unlock"]
    /\ UNCHANGED << started, disk, mu, now, kind, form, newComment, nData, nNL,
                    load, resp, hist >>

\* A postComment that returns from the append without mu.Unlock().
Unlock_Forget(r) ==
    /\ pc[r] = "p_unlock"
    /\ pc' = [pc EXCEPT ![r] = "r_rlock"]
    /\ UNCHANGED << started, disk, mu, now, faults, kind, form, post, load, resp, hist >>

\* postComment, lines 66-69: the result of saveComment is dropped, the lock
\* released and the section rendered.
Unlock(r) ==
    /\ pc[r] = "p_unlock"
    /\ mu' = [mu EXCEPT !.w = 0, !.held = FALSE]
    /\ pc' = [pc EXCEPT ![r] = "r_rlock"]
    /\ UNCHANGED << started, disk, now, faults, kind, form, post, load, resp, hist >>

\* renderCommentSection, line 73
RLock(r) ==
    /\ pc[r] = "r_rlock"
    /\ CanRLock
    /\ mu' = [mu EXCEPT !.readers = @ \cup {r}]
    /\ pc' = [pc EXCEPT ![r] = "l_open"]
    /\ UNCHANGED << started, disk, now, faults, kind, form, post, load, resp, hist >>

Returned == {w \in Reqs : saveErr[w] # "pending"}

\* A loadComments that opens the file with os.Create, which truncates it.
LoadOpen_Create(r) ==
    /\ pc[r] = "l_open"
    /\ exists
    /\ file' = << >>
    /\ doneAtOpen' = [doneAtOpen EXCEPT ![r] = Returned]
    /\ pc' = [pc EXCEPT ![r] = "l_scan"]
    /\ UNCHANGED << started, exists, mu, now, faults, kind, form, post, load, resp, overlap >>

\* loadComments, line 94
LoadOpen(r) ==
    /\ pc[r] = "l_open"
    /\ exists
    /\ doneAtOpen' = [doneAtOpen EXCEPT ![r] = Returned]
    /\ pc' = [pc EXCEPT ![r] = "l_scan"]
    /\ UNCHANGED << started, disk, mu, now, faults, kind, form, post, load, resp, overlap >>

\* loadComments, lines 95-97: there is no file.
LoadOpenMissing(r) ==
    /\ pc[r] = "l_open"
    /\ ~exists
    /\ err' = [err EXCEPT ![r] = "open"]
    /\ pc' = [pc EXCEPT ![r] = "r_runlock"]
    /\ UNCHANGED << started, disk, mu, now, faults, kind, form, post, comments, resp, hist >>

\* loadComments, lines 95-97: the file is there and os.Open fails.
LoadOpenFails(r) ==
    /\ pc[r] = "l_open"
    /\ exists
    /\ MayFail
    /\ faults' = faults + 1
    /\ err' = [err EXCEPT ![r] = "open"]
    /\ pc' = [pc EXCEPT ![r] = "r_runlock"]
    /\ UNCHANGED << started, disk, mu, now, kind, form, post, comments, resp, hist >>

\* loadComments, lines 98-116
LoadScan(r) ==
    /\ pc[r] = "l_scan"
    /\ LET got == loadComments(file, TRUE)
       IN  /\ comments' = [comments EXCEPT ![r] = got.comments]
           /\ err' = [err EXCEPT ![r] = got.err]
    /\ pc' = [pc EXCEPT ![r] = "r_runlock"]
    /\ UNCHANGED << started, disk, mu, now, faults, kind, form, post, resp, hist >>

LoadScanReadError(r) ==
    /\ pc[r] = "l_scan"
    /\ MayFail
    /\ faults' = faults + 1
    /\ LET got == loadComments(file, FALSE)
       IN  /\ comments' = [comments EXCEPT ![r] = got.comments]
           /\ err' = [err EXCEPT ![r] = got.err]
    /\ pc' = [pc EXCEPT ![r] = "r_runlock"]
    /\ UNCHANGED << started, disk, mu, now, kind, form, post, resp, hist >>

\* renderCommentSection, lines 77-84: after http.Error the function goes on
\* and executes the template on comments.
WriteSection(w, comments_, err_) ==
    WriteFragment(IF err_ # "nil"
                  THEN httpError(w, "comment load error", StatusInternalServerError)
                  ELSE w,
                  comments_)

\* renderCommentSection, lines 75-84: the lock is released and the response
\* written, which touches nothing but the request's own ResponseWriter.
RUnlock(r) ==
    /\ pc[r] = "r_runlock"
    /\ mu' = [mu EXCEPT !.readers = @ \ {r}]
    /\ resp' = [resp EXCEPT ![r] = WriteSection(resp[r], comments[r], err[r])]
    /\ pc' = [pc EXCEPT ![r] = "done"]
    /\ UNCHANGED << started, disk, now, faults, kind, form, post, load, hist >>

Next ==
    \/ Tick
    \/ Main
    \/ MainCreateFails
    \/ \E r \in Reqs :
        \/ GetStart(r)
        \/ PostBadForm(r)
        \/ PostRejected(r)
        \/ PostAccepted(r)
        \/ Lock(r)
        \/ LockAcquired(r)
        \/ NewComment(r)
        \/ NewCommentNoEntropy(r)
        \/ SaveOpen(r)
        \/ SaveOpenFails(r)
        \/ SaveWrite(r)
        \/ SaveWriteShort(r)
        \/ SaveNewline(r)
        \/ SaveNewlineFails(r)
        \/ SaveClose(r)
        \/ SaveCloseFails(r)
        \/ Unlock(r)
        \/ RLock(r)
        \/ LoadOpen(r)
        \/ LoadOpenMissing(r)
        \/ LoadOpenFails(r)
        \/ LoadScan(r)
        \/ LoadScanReadError(r)
        \/ RUnlock(r)

Spec == Init /\ [][Next]_vars

\* The same server started on whatever an earlier run has left.
SpecRestart == InitRestart /\ [][Next]_vars

\* The steps of the handler goroutine of request r once the request is in.
Handler(r) ==
    \/ Lock(r)
    \/ LockAcquired(r)
    \/ NewComment(r)
    \/ NewCommentNoEntropy(r)
    \/ SaveOpen(r)
    \/ SaveOpenFails(r)
    \/ SaveWrite(r)
    \/ SaveWriteShort(r)
    \/ SaveNewline(r)
    \/ SaveNewlineFails(r)
    \/ SaveClose(r)
    \/ SaveCloseFails(r)
    \/ Unlock(r)
    \/ RLock(r)
    \/ LoadOpen(r)
    \/ LoadOpenMissing(r)
    \/ LoadOpenFails(r)
    \/ LoadScan(r)
    \/ LoadScanReadError(r)
    \/ RUnlock(r)

\* net/http runs each handler in a goroutine of its own, and the Go scheduler
\* lets every goroutine that can run go on: a handler that can take a step
\* takes one in the end.  Arrivals, the clock and failures are not forced.
FairSpec == Spec /\ \A r \in Reqs : WF_vars(Handler(r))

\* ------------------------------------------------------------------ claims

\* What a comment looks like once it has been through the log: every byte of
\* name and body that is not valid UTF-8 reads back as U+FFFD.
Coerced(str) ==
    [i \in 1..Len(str) |-> [ch |-> IF str[i].ch = "bad" THEN "rep" ELSE str[i].ch,
                            n |-> str[i].n]]
StoredForm(c) == [c EXCEPT !.Name = Coerced(c.Name), !.Body = Coerced(c.Body)]

\* The append of w went through: file opened, record and newline written,
\* file closed.
Succeeded(w) == saveErr[w] = "nil" /\ nData[w] = "full" /\ nNL[w]
\* The record of w and its terminator are in the file.
InFile(w) ==
    \E i \in 1..(Len(file) - 1) : file[i] = Full(data(w)) /\ file[i + 1] = NL
Posted(r) == kind[r] = "POST" /\ pc[r] # "idle"

\* C1: whatever the interleaving of submissions and reads, every comment a
\* read returns is the record of an append that had returned before the
\* read opened the file; a record under construction is never seen.
C1_ReadsSeeOnlyCompletedAppends ==
    \A r \in Reqs : \A i \in 1..Len(comments[r]) :
        \E w \in doneAtOpen[r] :
            /\ nData[w] = "full"
            /\ comments[r][i] = StoredForm(newComment[w])

\* A read has returned a record while a submission, arrived in the
\* meantime, waits for the reader to leave.
C1_Witness ==
    \E r, w \in Reqs :
        /\ pc[r] = "r_runlock"
        /\ Len(comments[r]) >= 1
        /\ pc[w] = "p_wait"

AppendOp == {"s_open", "s_write", "s_nl", "s_close"}
LoadOp == {"l_open", "l_scan"}

\* C2: at most one request is inside the file operation of saveComment, none
\* is inside the file operation of loadComments at the same time, and the
\* first happens under the write lock, the second under the read lock.
C2_FileOperationsUnderLock ==
    LET appending == {r \in Reqs : pc[r] \in AppendOp}
        loading == {r \in Reqs : pc[r] \in LoadOp}
    IN  /\ Cardinality(appending) <= 1
        /\ appending # {} => loading = {}
        /\ \A r \in appending : mu.w = r /\ mu.held
        /\ \A r \in loading : r \in mu.readers /\ ~mu.held

\* A reader is blocked while a writer is between its two writes.
C2_Witness ==
    \E r, q \in Reqs : pc[r] = "s_nl" /\ pc[q] = "r_rlock"

\* The submissions whose append went through, in order of arrival.
RECURSIVE SucceededFrom(_)
SucceededFrom(w) ==
    IF w > NumReqs THEN << >>
    ELSE (IF Posted(w) /\ Succeeded(w) THEN << w >> ELSE << >>) \o SucceededFrom(w + 1)
\* No append has failed or written less than a whole line.
OnlySuccessfulAppends ==
    \A w \in Reqs : saveErr[w] = "pending" \/ Succeeded(w)
\* Request r has just read the log, successfully, after submissions that
\* were issued one after the other and all succeeded.
ReadAfterSequentialSubmissions(r) ==
    /\ pc[r] = "r_runlock"
    /\ err[r] = "nil"
    /\ ~overlap
    /\ OnlySuccessfulAppends

Acceptable(f) ==
    /\ f.website = << >>
    /\ len(TrimSpace(f.name)) \in 1..MaxNameLen
    /\ len(TrimSpace(f.body)) \in 1..MaxBodyLen

\* C4: a submission (a form that parses) gets to append exactly when the
\* honeypot is empty and the trimmed name and body have 1..80 and 1..1000
\* bytes: a rejected one never writes to the log, an accepted one has its
\* record in the log when it is done, unless an operation failed.
C4_ValidationBoundary ==
    \A r \in Reqs :
        (Posted(r) /\ form[r].ok) =>
            /\ ~Acceptable(form[r]) =>
                 /\ pc[r] = "done"
                 /\ nData[r] = "none" /\ ~nNL[r] /\ saveErr[r] = "pending"
                 /\ \A i \in 1..Len(file) : file[i] # Full(data(r))
            /\ (Acceptable(form[r]) /\ pc[r] = "done" /\ faults = 0) => InFile(r)

\* A name of 80 and a body of 1000 bytes went in, a name of 81 bytes did not.
C4_Witness ==
    \E r, q \in Reqs :
        /\ Posted(r) /\ pc[r] = "done"
        /\ len(name(r)) = MaxNameLen /\ len(body(r)) = MaxBodyLen
        /\ InFile(r)
        /\ Posted(q) /\ pc[q] = "done"
        /\ len(name(q)) = MaxNameLen + 1
        /\ nData[q] = "none"

\* What a GET answers when the store is as it is now and nothing fails.
ListResponse ==
    IF exists
    THEN LET got == loadComments(file, TRUE)
         IN  WriteSection(NoResponse, got.comments, got.err)
    ELSE WriteSection(NoResponse, << >>, "open")

\* C5: a rejected submission is answered like a GET in the same store state.
C5_RejectedAnswersLikeGet ==
    [][\A r \in Reqs :
         (pc[r] = "idle" /\ pc'[r] = "done" /\ kind'[r] = "POST" /\ form'[r].ok)
            => resp'[r] = ListResponse]_vars

AppendFailed(r) == saveErr[r] \in {"open", "close"} \/ nData[r] # "full" \/ ~nNL[r]

\* C7: a submission whose append failed is answered with a server error.
C7_AppendFailureIsServerError ==
    \A r \in Reqs :
        (Posted(r) /\ pc[r] = "done" /\ saveErr[r] # "pending" /\ AppendFailed(r)) =>
            resp[r].status = StatusInternalServerError

\* C8: when saveComment returns nil, the record and its line terminator are
\* in the file.
C8_SuccessMeansWritten ==
    \A r \in Reqs : saveErr[r] = "nil" => InFile(r)

\* C9: no record in the log has an empty identifier.
C9_NoEmptyIdentifier ==
    \A i \in 1..Len(file) : file[i].t # "nl" => file[i].data[1] # << >>

\* Some line of the file does not decode.
HasBadLine == \E i \in 1..Len(ScanLines(file)) : ~UnmarshalOK(ScanLines(file)[i])

\* C10: a read of a log with a line that does not decode fails as a whole:
\* an error and no comments, whether the line is the first or a later one.
C10_BadLineFailsWholeRead ==
    \A r \in Reqs :
        (pc[r] = "r_runlock" /\ err[r] # "open") =>
            /\ HasBadLine => err[r] # "nil"
            /\ err[r] # "nil" => comments[r] = << >>

\* A read failed on the second line of a log whose first line is good.
C10_Witness ==
    \E r \in Reqs :
        /\ pc[r] = "r_runlock"
        /\ err[r] = "decode"
        /\ comments[r] = << >>
        /\ Len(ScanLines(file)) >= 2
        /\ UnmarshalOK(ScanLines(file)[1])
        /\ ~UnmarshalOK(ScanLines(file)[2])

\* s is an initial segment of t.
IsPrefix(s, t) == Len(s) <= Len(t) /\ SubSeq(t, 1, Len(s)) = s

RECURSIVE TerminatedFrom(_, _, _)
\* The lines of f that end in a line feed.
TerminatedFrom(f, i, cur) ==
    IF i > Len(f) THEN << >>
    ELSE IF f[i].t = "nl"
         THEN << cur >> \o TerminatedFrom(f, i + 1, << >>)
         ELSE TerminatedFrom(f, i + 1, Append(cur, f[i]))
Records(f) == TerminatedFrom(f, 1, << >>)

\* C11: the log is append-only.  Whatever step is taken (start-up, accepted
\* or rejected submission, read, failed operation), the file stays, its
\* content before the step is an initial segment of its content after it,
\* and so are its terminated lines: no record is changed, moved or removed.
C11_AppendOnly ==
    [][/\ exists => exists'
       /\ IsPrefix(file, file')
       /\ IsPrefix(Records(file), Records(file'))]_vars

\* The log of an earlier run has survived the start, a rejected submission
\* and a new record.
C11_Witness ==
    /\ started
    /\ Len(file) = 4
    /\ SubSeq(file, 1, 2) = OldLog
    /\ \E r \in Reqs : Posted(r) /\ pc[r] = "done" /\ nData[r] = "none"

\* The 48-bit timestamp prefix of identifier a is not above that of b: the
\* 32 high bits are compared first, then the 16 low bits, as the hexadecimal
\* text of the identifier orders them.
TsLeq(a, b) == a[1] < b[1] \/ (a[1] = b[1] /\ a[2] <= b[2])

\* C12: after submissions issued one after the other, with no overlap, a
\* read lists them in the order of submission, and the timestamp prefix of
\* an earlier one's identifier is never above that of a later one's (the
\* clock does not go backwards; both identifiers were generated).
C12_BackToBackOrder ==
    \A r \in Reqs :
        ReadAfterSequentialSubmissions(r) =>
            LET S == SucceededFrom(1)
            IN  /\ Len(comments[r]) = Len(S)
                /\ \A i \in 1..Len(S) : comments[r][i].ID = newComment[S[i]].ID
                /\ \A i, j \in 1..Len(S) :
                       (i < j /\ comments[r][i].ID # << >> /\ comments[r][j].ID # << >>)
                           => /\ S[i] < S[j]
                              /\ TsLeq(comments[r][i].ID, comments[r][j].ID)

\* B1 then B2, a millisecond apart, across a carry from the low 16 bits of
\* the timestamp into the high 32 bits, and both listed.
C12_Witness ==
    \E r \in Reqs :
        /\ ReadAfterSequentialSubmissions(r)
        /\ Len(comments[r]) = 2
        /\ comments[r][1].ID # << >> /\ comments[r][2].ID # << >>
        /\ comments[r][1].ID[1] < comments[r][2].ID[1]
        /\ comments[r][1].ID[2] > comments[r][2].ID[2]

\* C13: loadComments is a pure read.  A step of a load, whether it succeeds
\* or fails, leaves the file as it was; and two loads that hold the read lock
\* together, so that no append lies between them, and that could both read
\* the file to its end, return the same comments and the same outcome.
C13_PureRead ==
    [][/\ \A r \in Reqs :
              (pc[r] \in LoadOp /\ pc'[r] # pc[r]) => (file' = file /\ exists' = exists)
       /\ \A r, q \in Reqs :
              (/\ pc'[r] = "r_runlock" /\ pc'[q] = "r_runlock"
               /\ err'[r] \in {"nil", "decode"} /\ err'[q] \in {"nil", "decode"})
                  => (comments'[r] = comments'[q] /\ err'[r] = err'[q])]_vars

\* Two requests have read the same record, one after the other, under the
\* read lock.
C13_Witness ==
    \E r, q \in Reqs :
        /\ r # q
        /\ pc[r] = "r_runlock" /\ pc[q] = "r_runlock"
        /\ err[r] = "nil" /\ err[q] = "nil"
        /\ Len(comments[r]) = 1
        /\ comments[q] = comments[r]
        /\ Len(file) = 2

\* C14: every record the log holds has a name of 1..80 bytes and a body of
\* 1..1000 bytes, both without white space at either end.  The records are
\* those a read of the whole file decodes.
C14_StoredWithinLimits ==
    LET stored == loadComments(file, TRUE).comments
    IN  \A i \in 1..Len(stored) :
            /\ len(stored[i].Name) \in 1..MaxNameLen
            /\ len(stored[i].Body) \in 1..MaxBodyLen
            /\ TrimSpace(stored[i].Name) = stored[i].Name
            /\ TrimSpace(stored[i].Body) = stored[i].Body

\* C15: when the log cannot be created at start-up the process stops: no
\* request is ever taken while the file is missing.
C15_NoServiceWithoutFile ==
    (\E r \in Reqs : pc[r] # "idle") => exists

\* C16: a request whose load failed is answered with the server error alone:
\* status 500 and no rendered comment list in the body.
C16_LoadFailureIsErrorOnly ==
    \A r \in Reqs :
        (pc[r] = "done" /\ err[r] # "nil") =>
            /\ resp[r].status = StatusInternalServerError
            /\ \A i \in 1..Len(resp[r].body) : resp[r].body[i].kind # "fragment"

\* The terminated lines of f that are one whole record.
RecordLines(f) ==
    {i \in 1..Len(Records(f)) : Len(Records(f)[i]) = 1 /\ Records(f)[i][1].t = "full"}

\* A write of w's append failed, or its close did.
AppendWentWrong(w) ==
    \/ pc[w] \in {"s_nl", "s_close"} /\ nData[w] # "full"
    \/ pc[w] = "s_close" /\ ~nNL[w]
    \/ saveErr[w] = "nil" /\ ~(nData[w] = "full" /\ nNL[w])
    \/ saveErr[w] = "close"

C18_TimestampsInFileOrder ==
    \A i, j \in 1..Len(file) :
        (/\ i < j
         /\ file[i].t = "full" /\ file[j].t = "full"
         /\ file[i].data[1] # << >> /\ file[j].data[1] # << >>)
            => TsLeq(file[i].data[1], file[j].data[1])

\* Two submissions that overlapped are in the log with different timestamps.
C18_Witness ==
    /\ overlap
    /\ \E i, j \in 1..Len(file) :
           /\ i < j
           /\ file[i].t = "full" /\ file[j].t = "full"
           /\ file[i].data[1] # << >> /\ file[j].data[1] # << >>
           /\ file[i].data[1][1] < file[j].data[1][1]

WriterPart == {"p_wait", "p_new", "s_open", "s_write", "s_nl", "s_close", "p_unlock"}
ReaderPart == {"l_open", "l_scan", "r_runlock"}

\* No request has the write lock and the read lock together, and a request
\* has a lock only between its acquire and its release: none before it has
\* arrived, none after it is done, the write lock gone before it asks for
\* the read lock.
LocksPaired ==
    \A r \in Reqs :
        /\ ~(mu.w = r /\ r \in mu.readers)
        /\ mu.w = r <=> pc[r] \in WriterPart
        /\ r \in mu.readers <=> pc[r] \in ReaderPart
        /\ mu.held => mu.w # 0

\* C19: no request holds the exclusive and the shared lock together, every
\* lock a request acquires it releases on every path, failures included,
\* and under fair scheduling every request that has arrived is answered:
\* readers and writers never deadlock.
C19_LocksReleasedAndRequestsComplete ==
    /\ []LocksPaired
    /\ \A r \in Reqs : (pc[r] # "idle") ~> (pc[r] = "done")

\* Two submissions that overlapped are both answered, one of them after its
\* append failed, and the lock is free.
C19_Witness ==
    /\ overlap
    /\ \A r \in Reqs : pc[r] = "done"
    /\ \E r \in Reqs : saveErr[r] = "open"
    /\ mu = [w |-> 0, held |-> FALSE, readers |-> {}]

====
